---------------------------- MODULE Spec2Model ----------------------------
(***************************************************************************)
(* FlipkartScraper (src/product_assistant/etl/data_scraper.py):            *)
(* get_top_reviews, scrape_flipkart_products and save_to_csv.              *)
(*                                                                         *)
(* A Python str is a sequence of tokens; a token is an atomic chunk of     *)
(* characters ("http", "flipkart.com", "/p/", a digit, ...).  startswith,   *)
(* the `in` test, concatenation, join, strip and the regular expressions   *)
(* are computed on these sequences.  The browser (undetected_chromedriver, *)
(* selenium) and the page it shows are the environment: what a page holds  *)
(* and which driver operation raises are drawn with \E.  Launching and     *)
(* quitting a browser are taken to succeed.                                *)
(***************************************************************************)
EXTENDS Integers, Sequences, FiniteSets, TLC

-----------------------------------------------------------------------------
(* Bounds of the model *)

\* most review blocks a product page holds
MaxBlocks == 2
\* largest review count a caller passes
MaxCount == 2
\* most result cards a search page holds
MaxCards == 2
\* most records handed to one save_to_csv call
MaxRows == 2

\* range(4): scroll-to-end actions of get_top_reviews
ScrollCount == 4

-----------------------------------------------------------------------------
(* Python values and str operations *)

PyNone == [t |-> "NoneType", v |-> <<>>]
PyStr(s) == [t |-> "str", v |-> s]
PyInt(d) == [t |-> "int", v |-> <<d>>]

\* truth value of a Python object: None, "" and 0 are false
Truthy(x) ==
    CASE x.t = "NoneType" -> FALSE
      [] x.t = "str" -> x.v # <<>>
      [] OTHER -> x.v # <<"0">>

\* s.startswith(p)
StartsWith(s, p) == Len(s) >= Len(p) /\ SubSeq(s, 1, Len(p)) = p

\* p in s
Contains(s, p) ==
    \E i \in 1..(Len(s) + 1) :
        i + Len(p) - 1 <= Len(s) /\ SubSeq(s, i, i + Len(p) - 1) = p

IsSpace(c) == c \in {" ", "\n", "\r"}

RECURSIVE LStrip(_)
LStrip(s) == IF s # <<>> /\ IsSpace(Head(s)) THEN LStrip(Tail(s)) ELSE s

RECURSIVE RStrip(_)
RStrip(s) ==
    IF s # <<>> /\ IsSpace(s[Len(s)]) THEN RStrip(SubSeq(s, 1, Len(s) - 1)) ELSE s

\* s.strip()
Strip(s) == RStrip(LStrip(s))

\* sep.join(parts)
RECURSIVE JoinWith(_, _)
JoinWith(sep, parts) ==
    IF parts = <<>> THEN <<>>
    ELSE IF Len(parts) = 1 THEN parts[1]
    ELSE parts[1] \o sep \o JoinWith(sep, Tail(parts))

NoReviewsFound == <<"No reviews found">>
InvalidProductUrl == <<"Invalid product URL">>
NotAvailable == <<"N/A">>
ReviewSeparator == <<" || ">>
Http == <<"http">>
FlipkartDomain == <<"flipkart.com">>
SiteOrigin == <<"http", "s://www.", "flipkart.com">>

-----------------------------------------------------------------------------
(* Input domains drawn by the environment *)

SeqsUpTo(S, n) == UNION {[1..m -> S] : m \in 0..n}

\* block.get_text(separator=" ", strip=True) of the selected review blocks
ReviewTexts == {<<>>, <<"Good">>, <<"Bad">>}
Pages == SeqsUpTo(ReviewTexts, MaxBlocks)

ProductPage == SiteOrigin \o <<"/", "phone", "/p/", "itmABC">>

\* product_url values a direct caller of get_top_reviews passes
Urls ==
    { PyNone, PyStr(<<>>), PyInt("7"),
      PyStr(<<"www.", "flipkart.com", "/p/", "itmABC">>),
      PyStr(ProductPage) }

Counts == 0..MaxCount

\* link_el.get_attribute("href") of a card's a[href*='/p/'] anchor
Hrefs ==
    { PyNone,
      PyStr(<<"/", "phone", "/p/", "itmABC">>),
      PyStr(ProductPage),
      PyStr(<<"http", "s://", "other.com", "/p/", "itmXYZ">>) }

\* span.Wphh3N text
Labels ==
    { <<" ", "1", "2", " ", "Ratings", " ", "&", " ", "1", ",", "2", " ", "Reviews">>,
      <<"1", "2", " ", "Ratings">> }

Lookups == <<"title", "price", "rating", "total_reviews", "link">>
LookupSet == {Lookups[n] : n \in 1..Len(Lookups)}

DefaultLabel == <<"1", "2", " ", "Ratings">>

\* what the lookups on a result card give: the find_element call that raises on
\* it ("none": all succeed) and the texts and href of its elements
Cards ==
    { c \in [throws : LookupSet \cup {"none"}, title : {<<" ", "iPhone 14", " ">>},
             price : {<<"Rs", "59,999">>}, rating : {<<"4.5">>},
             label : Labels, href : Hrefs] :
        /\ c.throws # "none" => (c.label = DefaultLabel /\ c.href = PyNone)
        /\ c.label = DefaultLabel => c.href = PyNone }

\* driver.find_elements(By.CSS_SELECTOR, "div[data-id]"): n elements, named by
\* their position on the page
Elements(n) == [k \in 1..n |-> k]

-----------------------------------------------------------------------------
(* Pure helpers of get_top_reviews and scrape_flipkart_products *)

\* data_scraper.py:47-51
InvalidUrl(u) == ~Truthy(u) \/ u.t # "str" \/ ~StartsWith(u.v, Http)

\* data_scraper.py:77-79, one loop iteration's update of `reviews`
AddReview(reviews, seen, text) ==
    IF text # <<>> /\ text \notin seen THEN Append(reviews, text) ELSE reviews

\* data_scraper.py:86
ReviewsResult(reviews) ==
    IF reviews # <<>> THEN JoinWith(ReviewSeparator, reviews) ELSE NoReviewsFound

Digits == {"0", "1", "2", "3", "4", "5", "6", "7", "8", "9"}

\* end of the maximal run of digits that starts at i
RECURSIVE DigitsEnd(_, _)
DigitsEnd(s, i) ==
    IF i + 1 <= Len(s) /\ s[i + 1] \in Digits THEN DigitsEnd(s, i + 1) ELSE i

\* (?=\s+Reviews) right after position j
ReviewsAhead(s, j) ==
    \E k \in (j + 2)..Len(s) :
        /\ s[k] = "Reviews"
        /\ \A m \in (j + 1)..(k - 1) : IsSpace(s[m])

\* end of the match of \d+(,\d+)?(?=\s+Reviews) that starts at i, 0 if none
MatchEnd(s, i) ==
    IF s[i] \notin Digits THEN 0
    ELSE LET e1 == DigitsEnd(s, i)
             grp == e1 + 2 <= Len(s) /\ s[e1 + 1] = "," /\ s[e1 + 2] \in Digits
             e2 == IF grp THEN DigitsEnd(s, e1 + 2) ELSE 0
         IN  IF grp /\ ReviewsAhead(s, e2) THEN e2
             ELSE IF ReviewsAhead(s, e1) THEN e1
             ELSE 0

\* TotalReviews without the "N/A" fallback of line 129
TotalReviewsBlank(reviews_text) ==
    LET starts == {i \in 1..Len(reviews_text) : MatchEnd(reviews_text, i) # 0}
    IN  IF starts = {} THEN <<>>
        ELSE LET i == CHOOSE j \in starts : \A o \in starts : j <= o
             IN  SubSeq(reviews_text, i, MatchEnd(reviews_text, i))

\* data_scraper.py:128-129
TotalReviews(reviews_text) ==
    LET starts == {i \in 1..Len(reviews_text) : MatchEnd(reviews_text, i) # 0}
    IN  IF starts = {} THEN NotAvailable
        ELSE LET i == CHOOSE j \in starts : \A o \in starts : j <= o
             IN  SubSeq(reviews_text, i, MatchEnd(reviews_text, i))

\* data_scraper.py:138-145
ProductLink(href) ==
    IF Truthy(href)
    THEN IF StartsWith(href.v, Http) THEN href ELSE PyStr(SiteOrigin \o href.v)
    ELSE PyNone

IsItemId(tok) == tok \in {"itmABC", "itmXYZ"}

\* data_scraper.py:148-149
ProductId(href) ==
    LET hits == IF Truthy(href)
                THEN {i \in 1..(Len(href.v) - 1) :
                         href.v[i] = "/p/" /\ IsItemId(href.v[i + 1])}
                ELSE {}
    IN  IF hits = {} THEN NotAvailable
        ELSE <<href.v[(CHOOSE j \in hits : \A o \in hits : j <= o) + 1]>>

\* Fetchable without the "flipkart.com" test of line 161
FetchableAny(product_link) == Truthy(product_link)

\* data_scraper.py:161
Fetchable(product_link) ==
    Truthy(product_link) /\ Contains(product_link.v, FlipkartDomain)

\* data_scraper.py:122-149, the five fields known before the review fetch
CardFields(card) ==
    << ProductId(card.href), Strip(card.title), Strip(card.rating),
       TotalReviews(Strip(card.label)), Strip(card.price) >>

\* data_scraper.py:165-167
ProductRecord(fields, top_reviews) == Append(fields, top_reviews)

\* [:max_products]
Take(s, n) == SubSeq(s, 1, IF n < Len(s) THEN n ELSE Len(s))

-----------------------------------------------------------------------------
(* State *)

VARIABLES
    sessions,   \* browser sessions launched since the current top-level call
                \* began, in launch order: [by, live]
    gtr,        \* the get_top_reviews activation (its locals and position)
    sfp,        \* the scrape_flipkart_products activation
    fs,         \* files written by save_to_csv: path -> content
    dirs,       \* directories that exist
    saved       \* path -> the data of the last save_to_csv call that wrote it,
                \* and whether that call found the file already there

vars == <<sessions, gtr, sfp, fs, dirs, saved>>

GtrIdle ==
    [pc |-> "idle", caller |-> "none", product_url |-> PyNone, count |-> 0,
     driver |-> 0, scrolls |-> 0, popup |-> "none", review_blocks |-> <<>>,
     k |-> 0, seen |-> {}, reviews |-> <<>>, exc |-> "none", result |-> <<>>]

SfpIdle ==
    [pc |-> "idle", max_products |-> 0, review_count |-> 0, driver |-> 0,
     found |-> <<>>, items |-> <<>>, i |-> 0, cards |-> <<>>,
     product_link |-> PyNone, products |-> <<>>, fetched |-> <<>>,
     exc |-> "none", result |-> <<>>]

\* FlipkartScraper(output_dir="data")
OutputDir == <<"data">>

\* data_scraper.py:27-28
Init ==
    /\ sessions = <<>>
    /\ gtr = GtrIdle
    /\ sfp = SfpIdle
    /\ fs = <<>>
    /\ dirs = {OutputDir, <<"/", "tmp">>}
    /\ saved = <<>>

\* uc.Chrome(options=options, use_subprocess=True)
Launch(ss, by) == Append(ss, [by |-> by, live |-> TRUE])

\* driver.quit()
Quit(ss, driver) == [ss EXCEPT ![driver].live = FALSE]

NoCallRunning ==
    /\ gtr.pc \in {"idle", "returned"}
    /\ sfp.pc \in {"idle", "returned", "raised"}

-----------------------------------------------------------------------------
(* get_top_reviews, data_scraper.py:30-86 *)

\* GtrEnter driving the first session of the pass instead of its own
GtrEnterShared(caller, product_url, count, ss) ==
    [GtrIdle EXCEPT
        !.caller = caller, !.product_url = product_url, !.count = count,
        !.driver = 1,
        !.pc = IF InvalidUrl(product_url) THEN "returned" ELSE "navigate",
        !.result = IF InvalidUrl(product_url) THEN NoReviewsFound ELSE <<>>]

\* lines 42-52: the session is launched, then the URL is validated
GtrEnter(caller, product_url, count, ss) ==
    [GtrIdle EXCEPT
        !.caller = caller, !.product_url = product_url, !.count = count,
        !.driver = Len(ss) + 1,
        !.pc = IF InvalidUrl(product_url) THEN "returned" ELSE "navigate",
        !.result = IF InvalidUrl(product_url) THEN NoReviewsFound ELSE <<>>]

\* a direct call of get_top_reviews(product_url, count)
GetTopReviews ==
    /\ NoCallRunning
    /\ \E product_url \in Urls, count \in Counts :
          gtr' = GtrEnter("user", product_url, count, <<>>)
    /\ sessions' = Launch(<<>>, "get_top_reviews")
    /\ sfp' = SfpIdle
    /\ UNCHANGED <<fs, dirs, saved>>

\* GtrExcept that keeps the snippets collected so far
GtrExceptKeep(where) == gtr' = [gtr EXCEPT !.exc = where, !.pc = "quit"]

\* lines 82-83: except Exception: reviews = []
GtrExcept(where) ==
    gtr' = [gtr EXCEPT !.reviews = <<>>, !.exc = where, !.pc = "quit"]

\* lines 55-56: driver.get(product_url) succeeds or raises
GtrNavigate ==
    /\ gtr.pc = "navigate"
    /\ \/ gtr' = [gtr EXCEPT !.pc = "popup"]
       \/ GtrExcept("navigate")
    /\ UNCHANGED <<sessions, sfp, fs, dirs, saved>>

\* lines 59-63: the popup is closed, or the failure is printed and ignored
GtrPopup ==
    /\ gtr.pc = "popup"
    /\ \E outcome \in {"closed", "failed"} :
          gtr' = [gtr EXCEPT !.popup = outcome, !.pc = "scroll"]
    /\ UNCHANGED <<sessions, sfp, fs, dirs, saved>>

\* lines 66-68: one scroll-to-end action succeeds or raises
GtrScroll ==
    /\ gtr.pc = "scroll"
    /\ \/ gtr' = [gtr EXCEPT
                     !.scrolls = @ + 1,
                     !.pc = IF gtr.scrolls + 1 = ScrollCount THEN "parse" ELSE "scroll"]
       \/ GtrExcept("scroll")
    /\ UNCHANGED <<sessions, sfp, fs, dirs, saved>>

\* lines 70-73: the page source is read and parsed, the blocks selected
GtrParse ==
    /\ gtr.pc = "parse"
    /\ \/ \E page \in Pages :
             gtr' = [gtr EXCEPT
                        !.review_blocks = page, !.seen = {}, !.reviews = <<>>,
                        !.k = 0,
                        !.pc = IF page = <<>> THEN "quit" ELSE "collect"]
       \/ GtrExcept("parse")
    /\ UNCHANGED <<sessions, sfp, fs, dirs, saved>>

\* lines 75-81: one iteration of the loop over review_blocks
GtrBlock ==
    /\ gtr.pc = "collect"
    /\ \/ LET text == gtr.review_blocks[gtr.k + 1]
              reviews == AddReview(gtr.reviews, gtr.seen, text)
          IN  gtr' = [gtr EXCEPT
                         !.reviews = reviews,
                         !.seen = IF reviews # gtr.reviews THEN @ \cup {text} ELSE @,
                         !.k = @ + 1,
                         !.pc = IF \/ Len(reviews) >= gtr.count
                                   \/ gtr.k + 1 = Len(gtr.review_blocks)
                                THEN "quit" ELSE "collect"]
       \/ GtrExcept("collect")
    /\ UNCHANGED <<sessions, sfp, fs, dirs, saved>>

\* lines 85-86: driver.quit() and the return value
GtrQuit ==
    /\ gtr.pc = "quit"
    /\ sessions' = Quit(sessions, gtr.driver)
    /\ gtr' = [gtr EXCEPT !.result = ReviewsResult(gtr.reviews), !.pc = "returned"]
    /\ UNCHANGED <<sfp, fs, dirs, saved>>

-----------------------------------------------------------------------------
(* scrape_flipkart_products, data_scraper.py:88-170 *)

\* lines 104-106: a call of scrape_flipkart_products(query, max_products,
\* review_count); the listing session is launched
ScrapeFlipkartProducts ==
    /\ NoCallRunning
    /\ \E max_products \in 0..MaxCards, review_count \in Counts :
          sfp' = [SfpIdle EXCEPT
                     !.max_products = max_products,
                     !.review_count = review_count,
                     !.driver = 1, !.pc = "navigate"]
    /\ sessions' = Launch(<<>>, "scrape_flipkart_products")
    /\ gtr' = GtrIdle
    /\ UNCHANGED <<fs, dirs, saved>>

\* an exception leaves scrape_flipkart_products: nothing catches it and
\* no finally clause runs
SfpRaise(where) == sfp' = [sfp EXCEPT !.exc = where, !.pc = "raised"]

\* lines 107-108: driver.get(search_url) succeeds or raises
SfpNavigate ==
    /\ sfp.pc = "navigate"
    /\ \/ sfp' = [sfp EXCEPT !.pc = "popup"]
       \/ SfpRaise("navigate")
    /\ UNCHANGED <<sessions, gtr, fs, dirs, saved>>

\* lines 111-116: the popup is closed, or the failure is printed and ignored;
\* either way the pass goes on
SfpPopup ==
    /\ sfp.pc = "popup"
    /\ sfp' = [sfp EXCEPT !.pc = "enumerate"]
    /\ UNCHANGED <<sessions, gtr, fs, dirs, saved>>

\* lines 117-119: find_elements returns the page's card elements, or raises
SfpEnumerate ==
    /\ sfp.pc = "enumerate"
    /\ \/ \E n \in 0..MaxCards :
             sfp' = [sfp EXCEPT
                        !.found = Elements(n),
                        !.items = Take(Elements(n), sfp.max_products),
                        !.products = <<>>, !.i = 0, !.pc = "cards"]
       \/ SfpRaise("enumerate")
    /\ UNCHANGED <<sessions, gtr, fs, dirs, saved>>

\* SfpCard without the try/except of lines 121 and 150-152: a raising lookup
\* leaves scrape_flipkart_products
SfpCardAbort ==
    /\ sfp.pc = "cards"
    /\ sfp.i < Len(sfp.items)
    /\ \E item \in Cards :
          LET product_link == ProductLink(item.href)
          IN  IF item.throws # "none"
              THEN /\ sfp' = [sfp EXCEPT !.cards = Append(@, item), !.exc = item.throws,
                                      !.pc = "raised"]
                   /\ UNCHANGED <<sessions, gtr>>
              ELSE IF Fetchable(product_link)
              THEN /\ sfp' = [sfp EXCEPT
                                 !.cards = Append(@, item),
                                 !.product_link = product_link, !.pc = "fetching"]
                   /\ gtr' = GtrEnter("listing", product_link, sfp.review_count,
                                      sessions)
                   /\ sessions' = Launch(sessions, "get_top_reviews")
              ELSE /\ sfp' = [sfp EXCEPT
                                 !.cards = Append(@, item),
                                 !.product_link = product_link,
                                 !.products = Append(@, ProductRecord(CardFields(item),
                                                                      InvalidProductUrl)),
                                 !.i = @ + 1]
                   /\ UNCHANGED <<sessions, gtr>>
    /\ UNCHANGED <<fs, dirs, saved>>

\* lines 120-167 for the next element of items, whose lookups give `item`
\* (kept in cards): a raising lookup skips the card (150-152);
\* otherwise the reviews are fetched by a nested get_top_reviews call
\* (159-161) or replaced by "Invalid product URL" (162)
SfpCard ==
    /\ sfp.pc = "cards"
    /\ sfp.i < Len(sfp.items)
    /\ \E item \in Cards :
          LET product_link == ProductLink(item.href)
          IN  IF item.throws # "none"
              THEN /\ sfp' = [sfp EXCEPT !.cards = Append(@, item), !.i = @ + 1]
                   /\ UNCHANGED <<sessions, gtr>>
              ELSE IF Fetchable(product_link)
              THEN /\ sfp' = [sfp EXCEPT
                                 !.cards = Append(@, item),
                                 !.product_link = product_link, !.pc = "fetching"]
                   /\ gtr' = GtrEnter("listing", product_link, sfp.review_count,
                                      sessions)
                   /\ sessions' = Launch(sessions, "get_top_reviews")
              ELSE /\ sfp' = [sfp EXCEPT
                                 !.cards = Append(@, item),
                                 !.product_link = product_link,
                                 !.products = Append(@, ProductRecord(CardFields(item),
                                                                      InvalidProductUrl)),
                                 !.i = @ + 1]
                   /\ UNCHANGED <<sessions, gtr>>
    /\ UNCHANGED <<fs, dirs, saved>>

\* lines 159-167: the nested get_top_reviews call has returned
SfpFetched ==
    /\ sfp.pc = "fetching"
    /\ gtr.pc = "returned"
    /\ sfp' = [sfp EXCEPT
                  !.products = Append(@, ProductRecord(CardFields(sfp.cards[sfp.i + 1]),
                                                       gtr.result)),
                  !.fetched = Append(@, [card |-> sfp.i + 1,
                                         product_url |-> gtr.product_url,
                                         count |-> gtr.count,
                                         driver |-> gtr.driver,
                                         result |-> gtr.result]),
                  !.i = @ + 1, !.pc = "cards"]
    /\ gtr' = GtrIdle
    /\ UNCHANGED <<sessions, fs, dirs, saved>>

\* lines 169-170: driver.quit() and return products
SfpQuit ==
    /\ sfp.pc = "cards"
    /\ sfp.i = Len(sfp.items)
    /\ sessions' = Quit(sessions, sfp.driver)
    /\ sfp' = [sfp EXCEPT !.result = sfp.products, !.pc = "returned"]
    /\ UNCHANGED <<gtr, fs, dirs, saved>>

Next ==
    \/ GetTopReviews
    \/ GtrNavigate
    \/ GtrPopup
    \/ GtrScroll
    \/ GtrParse
    \/ GtrBlock
    \/ GtrQuit
    \/ ScrapeFlipkartProducts
    \/ SfpNavigate
    \/ SfpPopup
    \/ SfpEnumerate
    \/ SfpCard
    \/ SfpFetched
    \/ SfpQuit

Spec == Init /\ [][Next]_vars

-----------------------------------------------------------------------------
(* save_to_csv, data_scraper.py:172-206 *)

Comma == ","
Quote == "\""
CR == "\r"
LF == "\n"

\* lines 197-204
Header ==
    << <<"product_id">>, <<"product_title">>, <<"rating">>, <<"total_reviews">>,
       <<"price">>, <<"top_reviews">> >>

\* csv.writer, excel dialect, QUOTE_MINIMAL: a field holding the delimiter, the
\* quote character or a line-terminator character is quoted
NeedsQuotes(field) == \E n \in 1..Len(field) : field[n] \in {Comma, Quote, CR, LF}

\* doublequote=True
RECURSIVE DoubleQuotes(_)
DoubleQuotes(field) ==
    IF field = <<>> THEN <<>>
    ELSE (IF Head(field) = Quote THEN <<Quote, Quote>> ELSE <<Head(field)>>)
         \o DoubleQuotes(Tail(field))

WriteField(field) ==
    IF NeedsQuotes(field) THEN <<Quote>> \o DoubleQuotes(field) \o <<Quote>> ELSE field

RECURSIVE WriteFields(_)
WriteFields(row) ==
    IF row = <<>> THEN <<>>
    ELSE IF Len(row) = 1 THEN WriteField(row[1])
    ELSE WriteField(row[1]) \o <<Comma>> \o WriteFields(Tail(row))

\* writer.writerow(row): a row of one empty field is written as ""
WriteRow(row) ==
    (IF row = << <<>> >> THEN <<Quote, Quote>> ELSE WriteFields(row)) \o <<CR, LF>>

\* writer.writerows(data)
RECURSIVE WriteRows(_)
WriteRows(data) ==
    IF data = <<>> THEN <<>> ELSE WriteRow(Head(data)) \o WriteRows(Tail(data))

\* WrittenFile under open(path, "a")
WrittenFileAppend(old, data) == old \o WriteRow(Header) \o WriteRows(data)

\* open(path, "w"): the file is truncated, then header and rows are written
WrittenFile(old, data) == WriteRow(Header) \o WriteRows(data)

\* os.path.isabs(filename)
IsAbs(filename) == filename # <<>> /\ Head(filename) = "/"

\* os.path.dirname(filename): what precedes the last "/", without trailing "/"
RECURSIVE RStripSlash(_)
RStripSlash(p) ==
    IF p # <<>> /\ p[Len(p)] = "/" /\ \E n \in 1..Len(p) : p[n] # "/"
    THEN RStripSlash(SubSeq(p, 1, Len(p) - 1)) ELSE p

Dirname(filename) ==
    LET slashes == {n \in 1..Len(filename) : filename[n] = "/"}
    IN  IF slashes = {} THEN <<>>
        ELSE RStripSlash(SubSeq(filename, 1,
                                CHOOSE n \in slashes : \A o \in slashes : o <= n))

\* os.path.join(output_dir, filename) for a filename without a directory
PathJoin(dir, filename) ==
    IF dir = <<>> \/ dir[Len(dir)] = "/" THEN dir \o filename
    ELSE dir \o <<"/">> \o filename

\* lines 183-192
ResolvePath(filename) ==
    IF IsAbs(filename) THEN filename
    ELSE IF Dirname(filename) # <<>> THEN filename
    ELSE PathJoin(OutputDir, filename)

\* line 189: os.makedirs(os.path.dirname(path), exist_ok=True)
MakeDirs(filename) ==
    IF ~IsAbs(filename) /\ Dirname(filename) # <<>>
    THEN dirs \cup {Dirname(filename)} ELSE dirs

Filenames ==
    { <<"/", "tmp", "/", "x.csv">>, <<"data", "/", "x.csv">>, <<"x.csv">> }

\* product records as scrape_flipkart_products builds them
Records ==
    { <<<<"itmABC">>, <<"iPhone 14">>, <<"4.5">>, <<"1", ",", "2">>, <<"Rs", "59,999">>,
        <<"Good">> \o ReviewSeparator \o <<"Bad">> >>,
      <<NotAvailable, <<"TV ", Quote, "55", Quote>>, <<>>, NotAvailable,
        <<"Rs", "9", ",", "999">>, <<"Nice", LF, "one">> >> }

Put(f, key, value) ==
    [x \in DOMAIN f \cup {key} |-> IF x = key THEN value ELSE f[x]]

\* save_to_csv(data, filename)
SaveToCsv ==
    /\ NoCallRunning
    /\ \E data \in SeqsUpTo(Records, MaxRows), filename \in Filenames :
          LET path == ResolvePath(filename)
              old == IF path \in DOMAIN fs THEN fs[path] ELSE <<>>
          IN  /\ dirs' = MakeDirs(filename)
              /\ fs' = Put(fs, path, WrittenFile(old, data))
              /\ saved' = Put(saved, path,
                               [data |-> data, overwrote |-> path \in DOMAIN fs])
    /\ UNCHANGED <<sessions, gtr, sfp>>

NextCsv == SaveToCsv

SpecCsv == Init /\ [][NextCsv]_vars

-----------------------------------------------------------------------------
(* Reading a file back: csv.reader, excel dialect *)

\* one field from position i: the field, the position after its terminator, and
\* whether a delimiter ("field"), a line end ("row") or the end of the text
\* ("eof") ended it
RECURSIVE ReadField(_, _, _, _)
ReadField(s, i, st, field) ==
    IF i > Len(s) THEN [field |-> field, next |-> i, end |-> "eof"]
    ELSE LET c == s[i]
             nl == c \in {CR, LF}
             step == IF c = CR /\ i + 1 <= Len(s) /\ s[i + 1] = LF THEN 2 ELSE 1
             endRow == [field |-> field, next |-> i + step, end |-> "row"]
             endField == [field |-> field, next |-> i + 1, end |-> "field"]
         IN  CASE st = "start_field" ->
                    IF nl THEN endRow
                    ELSE IF c = Quote THEN ReadField(s, i + 1, "in_quoted", <<>>)
                    ELSE IF c = Comma THEN endField
                    ELSE ReadField(s, i + 1, "in_field", <<c>>)
               [] st = "in_field" ->
                    IF nl THEN endRow
                    ELSE IF c = Comma THEN endField
                    ELSE ReadField(s, i + 1, "in_field", Append(field, c))
               [] st = "in_quoted" ->
                    IF c = Quote THEN ReadField(s, i + 1, "quote_in_quoted", field)
                    ELSE ReadField(s, i + 1, "in_quoted", Append(field, c))
               [] OTHER ->
                    IF c = Quote THEN ReadField(s, i + 1, "in_quoted", Append(field, Quote))
                    ELSE IF nl THEN endRow
                    ELSE IF c = Comma THEN endField
                    ELSE ReadField(s, i + 1, "in_field", Append(field, c))

\* one row from position i: its fields and the position after its line end
RECURSIVE ReadRow(_, _, _)
ReadRow(s, i, fields) ==
    LET f == ReadField(s, i, "start_field", <<>>)
    IN  IF f.end = "field" THEN ReadRow(s, f.next, Append(fields, f.field))
        ELSE [row |-> Append(fields, f.field), next |-> f.next]

\* the rows from position i on; an empty line is an empty row
RECURSIVE ReadRows(_, _, _)
ReadRows(s, i, rows) ==
    IF i > Len(s) THEN rows
    ELSE IF s[i] \in {CR, LF}
    THEN ReadRows(s, IF s[i] = CR /\ i + 1 <= Len(s) /\ s[i + 1] = LF THEN i + 2 ELSE i + 1,
                  Append(rows, <<>>))
    ELSE LET r == ReadRow(s, i, <<>>)
         IN  ReadRows(s, r.next, Append(rows, r.row))

ReadCsv(content) == ReadRows(content, 1, <<>>)

-----------------------------------------------------------------------------
(* Properties *)

Min(a, b) == IF a < b THEN a ELSE b

GtrSessions == {n \in DOMAIN sessions : sessions[n].by = "get_top_reviews"}

\* the distinct non-empty texts of a page, in page order
RECURSIVE DistinctTexts(_, _)
DistinctTexts(page, acc) ==
    IF page = <<>> THEN acc
    ELSE DistinctTexts(Tail(page),
                       IF Head(page) = <<>> \/ \E n \in 1..Len(acc) : acc[n] = Head(page)
                       THEN acc ELSE Append(acc, Head(page)))

\* the first min(K, N) distinct texts joined with " || ", or the sentinel
ExpectedReviews(page, n) ==
    LET d == DistinctTexts(page, <<>>)
        m == Min(Len(d), n)
    IN  IF m = 0 THEN NoReviewsFound
        ELSE JoinWith(ReviewSeparator, [k \in 1..m |-> d[k]])

\* get_top_reviews returned after an extraction in which nothing raised
GtrExtracted ==
    /\ gtr.pc = "returned"
    /\ ~InvalidUrl(gtr.product_url)
    /\ gtr.exc = "none"

\* get_top_reviews returned through the early return of line 52
GtrEarlyReturned ==
    /\ gtr.pc = "returned"
    /\ gtr.exc = "none"
    /\ gtr.scrolls < ScrollCount

\* C1: a get_top_reviews call with an empty, None, non-string or non-http
\* product_url returns "No reviews found" and no browser session is created
\* during the call.
C1_InvalidUrlOpensNoSession ==
    (gtr.pc = "returned" /\ InvalidUrl(gtr.product_url))
        => (gtr.result = NoReviewsFound /\ GtrSessions = {})

\* C2: when get_top_reviews has returned, on any exit path, every session the
\* call opened has been quit.
C2_SessionQuitOnEveryExit ==
    gtr.pc = "returned" => \A n \in GtrSessions : ~sessions[n].live

\* C3: for a valid URL, a page with K distinct non-empty texts and a count
\* N >= 0, the result is the first min(K, N) distinct texts in page order
\* joined with " || ", and "No reviews found" when min(K, N) = 0.
C3_ExactlyMinSnippets ==
    GtrExtracted => gtr.result = ExpectedReviews(gtr.review_blocks, gtr.count)

\* positions of the cards of a list on which no lookup raised, in order
OkIndex(cards) ==
    SelectSeq([n \in 1..Len(cards) |-> n], LAMBDA n : cards[n].throws = "none")

\* C4: the list returned by scrape_flipkart_products holds, in encounter
\* order, exactly one record for each of the first max_products cards on
\* which no lookup raised; a raising card is skipped and never ends the pass.
C4_ThrowingCardsSkipped ==
    LET ok == OkIndex(sfp.cards)
    IN  /\ sfp.pc \in {"cards", "fetching", "returned"} =>
              /\ sfp.items = Elements(Min(sfp.max_products, Len(sfp.found)))
              /\ \A k \in 1..Len(sfp.products) :
                    SubSeq(sfp.products[k], 1, 5) = CardFields(sfp.cards[ok[k]])
        /\ sfp.pc = "cards" =>
              Len(sfp.cards) = sfp.i /\ Len(sfp.products) = Len(ok)
        /\ sfp.pc = "returned" =>
              /\ Len(sfp.cards) = Len(sfp.items)
              /\ Len(sfp.result) = Len(ok)
              /\ sfp.result = sfp.products
        /\ sfp.pc = "raised" => sfp.exc \in {"navigate", "enumerate"}

\* C4: of three cards found the first two were processed, the first raised
\* and the second gave the only record returned
C4_Witness ==
    /\ sfp.pc = "returned"
    /\ sfp.max_products = 2
    /\ Len(sfp.found) = MaxCards
    /\ sfp.cards[1].throws # "none"
    /\ sfp.cards[2].throws = "none"
    /\ Len(sfp.result) = 1

\* an anchor with a non-empty href
LinkResolved(href) == href.t = "str" /\ href.v # <<>>

\* the href made absolute
AbsoluteLink(href) ==
    IF Head(href.v) = "http" THEN href.v ELSE SiteOrigin \o href.v

\* card n's reviews are what get_top_reviews returned for url and the
\* per-product review count
FetchedFor(n, url, top_reviews) ==
    \E j \in 1..Len(sfp.fetched) :
        /\ sfp.fetched[j].card = n
        /\ sfp.fetched[j].product_url = PyStr(url)
        /\ sfp.fetched[j].count = sfp.review_count
        /\ sfp.fetched[j].result = top_reviews

NeverFetchedFor(n) == \A j \in 1..Len(sfp.fetched) : sfp.fetched[j].card # n

\* C5 as stated: top_reviews of every record is non-empty; it is the value
\* get_top_reviews returned for the card's link whenever a link was resolved,
\* and "Invalid product URL" otherwise; get_top_reviews never gets a null link.
C5_ResolvedLinkIsFetched ==
    sfp.pc = "returned" =>
        /\ \A k \in 1..Len(sfp.result) :
              LET n == OkIndex(sfp.cards)[k]
                  href == sfp.cards[n].href
                  top_reviews == sfp.result[k][6]
              IN  /\ top_reviews # <<>>
                  /\ IF LinkResolved(href)
                     THEN FetchedFor(n, AbsoluteLink(href), top_reviews)
                     ELSE top_reviews = InvalidProductUrl
        /\ \A j \in 1..Len(sfp.fetched) : sfp.fetched[j].product_url # PyNone

\* C5 amended: top_reviews of every record is non-empty; it is the value
\* get_top_reviews returned for the card's link when a link was resolved and
\* the link contains "flipkart.com"; otherwise (no href, or a link outside
\* flipkart.com) it is "Invalid product URL" and get_top_reviews is not
\* invoked for the card; get_top_reviews never gets a null link.
C5_FlipkartLinkIsFetched ==
    sfp.pc = "returned" =>
        /\ \A k \in 1..Len(sfp.result) :
              LET n == OkIndex(sfp.cards)[k]
                  href == sfp.cards[n].href
                  top_reviews == sfp.result[k][6]
              IN  /\ top_reviews # <<>>
                  /\ IF LinkResolved(href) /\ Contains(AbsoluteLink(href), FlipkartDomain)
                     THEN FetchedFor(n, AbsoluteLink(href), top_reviews)
                     ELSE top_reviews = InvalidProductUrl /\ NeverFetchedFor(n)
        /\ \A j \in 1..Len(sfp.fetched) : sfp.fetched[j].product_url # PyNone

\* C5: a pass returned one record with fetched reviews and one whose resolved
\* link lies outside flipkart.com
C5_Witness ==
    /\ sfp.pc = "returned"
    /\ Len(sfp.result) = 2
    /\ sfp.cards[1].href = PyStr(<<"/", "phone", "/p/", "itmABC">>)
    /\ sfp.result[1][6] = <<"Good">> \o ReviewSeparator \o <<"Bad">>
    /\ LinkResolved(sfp.cards[2].href)
    /\ sfp.result[2][6] = InvalidProductUrl

\* C6: when scrape_flipkart_products has ended, by returning or by an
\* exception leaving it, its browser session has been quit.
C6_ListingSessionQuit ==
    sfp.pc \in {"returned", "raised"} => ~sessions[sfp.driver].live

\* C7: an exception raised in get_top_reviews during navigation, scrolling,
\* parsing or collection is caught: the call goes on to its return (the
\* listing pass that invoked it keeps waiting for the value), the collected
\* snippets are dropped and the result is "No reviews found"; a failed popup
\* dismissal alone leaves the extraction's result as it would be.
C7_ExceptionsDegradeToSentinel ==
    /\ gtr.exc # "none" =>
          /\ gtr.pc \in {"quit", "returned"}
          /\ gtr.reviews = <<>>
          /\ gtr.caller = "listing" => sfp.pc = "fetching"
    /\ (gtr.pc = "returned" /\ gtr.exc # "none") => gtr.result = NoReviewsFound
    /\ (GtrExtracted /\ gtr.popup = "failed" /\ gtr.count >= 1) =>
          gtr.result = ExpectedReviews(gtr.review_blocks, gtr.count)

\* C7: the loop had collected a snippet when a block raised, and the call
\* returned the sentinel
C7_Witness ==
    /\ gtr.pc = "returned"
    /\ gtr.exc = "collect"
    /\ gtr.seen # {}
    /\ gtr.result = NoReviewsFound

\* C8 as stated: a card on which the extraction of a field fails still yields
\* a record, so every enumerated card has a record in the returned list.
C8_MissingFieldKeepsRecord ==
    sfp.pc = "returned" => Len(sfp.result) = Len(sfp.items)

\* C8 amended: only total_reviews and product_id fall back to a sentinel:
\* a card whose five lookups succeed yields a record whose total_reviews is
\* "N/A" exactly when its label has no "<n> Reviews" token and whose
\* product_id is "N/A" exactly when it has no href; a card on which a lookup
\* raises yields no record.
C8_SentinelOnlyForParsedFields ==
    sfp.pc = "returned" =>
        LET ok == OkIndex(sfp.cards)
        IN  /\ Len(sfp.result) = Len(ok)
            /\ \A k \in 1..Len(ok) :
                  LET card == sfp.cards[ok[k]]
                      record == sfp.result[k]
                  IN  /\ Len(record) = 6
                      /\ record[4] = NotAvailable <=> ~Contains(card.label, <<"Reviews">>)
                      /\ record[4] # <<>>
                      /\ record[1] = NotAvailable <=> card.href = PyNone

\* C8: of two cards the first lost its rating element and gave no record, the
\* second gave a record with total_reviews "N/A"
C8_Witness ==
    /\ sfp.pc = "returned"
    /\ Len(sfp.items) = 2
    /\ sfp.cards[1].throws = "rating"
    /\ Len(sfp.result) = 1
    /\ sfp.result[1][4] = NotAvailable
    /\ sfp.result[1][1] = NotAvailable

\* C9: every file save_to_csv wrote reads back as the header row followed by
\* the records of the last call that resolved to its path, in input order.
C9_FileHoldsLastCall ==
    \A path \in DOMAIN fs :
        /\ ReadCsv(fs[path]) = <<Header>> \o saved[path].data
        /\ Len(ReadCsv(fs[path])) = Len(saved[path].data) + 1

\* C9: a file that already existed was written again with two records
C9_Witness ==
    \E path \in DOMAIN fs :
        /\ saved[path].overwrote
        /\ Len(saved[path].data) = 2
        /\ saved[path].data[1] # saved[path].data[2]

ValidFlipkartUrl(u) ==
    /\ u.t = "str"
    /\ u.v # <<>>
    /\ StartsWith(u.v, Http)
    /\ Contains(u.v, FlipkartDomain)

\* C10: within a listing pass every get_top_reviews invocation gets a
\* non-empty string that starts with "http" and contains "flipkart.com", never
\* takes the early return, and drives one session of its own: launched by it,
\* different from the listing session and from the sessions of the other
\* invocations.
C10_NestedCallsOwnSession ==
    /\ gtr.caller = "listing" =>
          /\ ValidFlipkartUrl(gtr.product_url)
          /\ ~GtrEarlyReturned
          /\ gtr.driver # sfp.driver
          /\ gtr.driver \in GtrSessions
          /\ \A j \in 1..Len(sfp.fetched) : sfp.fetched[j].driver # gtr.driver
    /\ sfp.pc # "idle" =>
          /\ \A j \in 1..Len(sfp.fetched) :
                /\ ValidFlipkartUrl(sfp.fetched[j].product_url)
                /\ sfp.fetched[j].driver \in GtrSessions
                /\ \A o \in 1..Len(sfp.fetched) :
                      sfp.fetched[o].driver = sfp.fetched[j].driver => o = j
          /\ Cardinality(GtrSessions) =
                Len(sfp.fetched) + (IF gtr.caller = "listing" THEN 1 ELSE 0)

\* C10: the second card's relative href was made absolute and its reviews are
\* being returned by a second get_top_reviews invocation
C10_Witness ==
    /\ sfp.pc = "fetching"
    /\ gtr.pc = "returned"
    /\ Len(sfp.fetched) = 1
    /\ ~StartsWith(sfp.cards[sfp.i + 1].href.v, Http)
    /\ gtr.driver = 3

=============================================================================
